---- MODULE Spec2Model ----
(***************************************************************************)
(* A model of the spatial slicer of sims_maf                                *)
(* (python/lsst/sims/maf/slicers/baseSpatialSlicer.py).                     *)
(*                                                                           *)
(* Numbers.  Every real number of the program is a fixed-point integer in   *)
(* units of 1/10000: the angle 1.75 is 17500, the Cartesian coordinate 1.0  *)
(* is 10000.  Whether an angle is in degrees or in radians is decided by    *)
(* the code that reads it, exactly as in the program.                       *)
(* Indices are Python's: 0-based, and sequences are read through At and     *)
(* PyGet.                                                                    *)
(***************************************************************************)
EXTENDS Integers, Sequences, FiniteSets, TLC

(***************************************************************************)
(* Bounds of the model.                                                      *)
(***************************************************************************)
\* the longest observation set handed to setupSlicer
MaxObs == 2
\* the largest number of slice points of an instance
MaxSlices == 2

(***************************************************************************)
(* Fixed-point arithmetic: numpy's cos, sin, radians, degrees, sqrt, pi.    *)
(***************************************************************************)
One == 100 * 100
Pi == 31416
HalfPi == Pi \div 2
TwoPi == 2 * Pi

Abs(a) == IF a >= 0 THEN a ELSE -a

Mul(a, b) == IF a * b >= 0 THEN (a * b) \div One ELSE -((-(a * b)) \div One)

\* sin on [0, pi/2], by its Taylor series
SinQ(x) ==
    LET x2 == Mul(x, x)
        t3 == Mul(x, x2) \div 6
        t5 == Mul(t3, x2) \div 20
        t7 == Mul(t5, x2) \div 42
        t9 == Mul(t7, x2) \div 72
    IN  x - t3 + t5 - t7 + t9

\* cos on [0, pi/2], by its Taylor series
CosQ(x) ==
    LET x2 == Mul(x, x)
        c2 == x2 \div 2
        c4 == Mul(c2, x2) \div 12
        c6 == Mul(c4, x2) \div 30
        c8 == Mul(c6, x2) \div 56
        c10 == Mul(c8, x2) \div 90
    IN  One - c2 + c4 - c6 + c8 - c10

Sin(a) ==
    LET r == a % TwoPi
    IN  IF r <= HalfPi THEN SinQ(r)
        ELSE IF r <= Pi THEN SinQ(Pi - r)
        ELSE IF r <= Pi + HalfPi THEN -SinQ(r - Pi)
        ELSE -SinQ(TwoPi - r)

Cos(a) ==
    LET r == a % TwoPi
    IN  IF r <= HalfPi THEN CosQ(r)
        ELSE IF r <= Pi THEN -CosQ(Pi - r)
        ELSE IF r <= Pi + HalfPi THEN -CosQ(r - Pi)
        ELSE CosQ(TwoPi - r)

\* np.radians: degrees to radians, v * pi / 180
Radians(v) ==
    LET a == Abs(v)
        r == ((a \div 100) * 17453) \div 10000 + ((a % 100) * 17453) \div 1000000
    IN  IF v >= 0 THEN r ELSE -r

\* np.degrees: radians to degrees, v * 180 / pi
Degrees(v) ==
    LET a == Abs(v)
        d == (a \div 10000) * 572958 + (((a % 10000) \div 100) * 572958) \div 100
             + ((a % 100) * 572958) \div 10000
    IN  IF v >= 0 THEN d ELSE -d

RECURSIVE SqrtIter(_, _, _)
SqrtIter(n, lo, hi) ==
    IF lo >= hi THEN lo
    ELSE LET mid == (lo + hi + 1) \div 2
         IN  IF mid * mid <= n THEN SqrtIter(n, mid, hi) ELSE SqrtIter(n, lo, mid - 1)

\* np.sqrt, rounded down
Sqrt(n) == SqrtIter(n, 0, 4 * One)

(***************************************************************************)
(* Python sequences.                                                         *)
(***************************************************************************)
\* s[i] for 0 <= i < len(s)
At(s, i) == s[i + 1]

\* does s[i] exist: Python accepts -len(s) <= i < len(s)
PyInRange(n, i) == -n <= i /\ i < n

\* s[i] with Python's negative indices
PyGet(s, i) == IF i >= 0 THEN s[i + 1] ELSE s[Len(s) + i + 1]

\* np.arange(n) as a set
Range(n) == 0 .. (n - 1)

(***************************************************************************)
(* The values the model draws its inputs from.                               *)
(***************************************************************************)
None == "None"
Chips == {"R1", "R2"}
ChipOrNone == Chips \cup {None}

\* the default of the radius parameter of __init__
DefaultRadius == 17500

\* Observation records: the columns lonCol, latCol, rotSkyPosColName and
\* mjdColName of simData.  RecB is 1 unit of longitude (1 degree or 1 radian),
\* RecD is 7 units of latitude (7 degrees, or 7 radians: more than 2 pi).
\* The orientation of RecB is 190 units: past the half turn as degrees, and
\* 86.2 degrees into a turn as radians.
RecA == [lon |-> 0, lat |-> 0, rotSkyPos |-> 0, mjd |-> 59580]
RecB == [lon |-> One, lat |-> 0, rotSkyPos |-> 190 * One, mjd |-> 59581]
RecD == [lon |-> 0, lat |-> 7 * One, rotSkyPos |-> One, mjd |-> 59582]
Records == {RecA, RecB, RecD}

\* the observation sets: up to MaxObs observations, no two of them the same
SimDataSets ==
    UNION {{sd \in [1 .. n -> Records] : \A j, k \in 1 .. n : sd[j] = sd[k] => j = k}
           : n \in 0 .. MaxObs}

\* Slice point positions, in radians: the origin, 1 degree north of it,
\* 1 radian east of it, and 1 degree east of it.
Positions ==
    << [ra |-> 0, dec |-> 0], [ra |-> 0, dec |-> 174], [ra |-> One, dec |-> 0],
       [ra |-> 174, dec |-> 0] >>

\* the slice points of an instance: the first n positions
SlicePointSets == {SubSeq(Positions, 1, n) : n \in 0 .. MaxSlices}

\* The camera models the detector-geometry provider may be: the detector a
\* sky position falls on when it is the pointing centre, and when it is not.
CameraModel(centre, off) == [centre |-> centre, off |-> off]
NoCamera == CameraModel("unset", "unset")

\* the detector allow-list (chipNames of __init__, {"all"} for 'all') and
\* the camera model it is used with
CameraSetups ==
    { << {"all"}, CameraModel("R1", "R2") >>,
      << {"all"}, CameraModel("R1", None) >>,
      << {"R1"}, CameraModel("R1", "R2") >>,
      << {"R1"}, CameraModel(None, "R1") >> }

\* Values of the slice-point metadata store: a numpy shape and the data.
Scalar(x) == [shape |-> << >>, data |-> << x >>]
Array(s) == [shape |-> << Len(s) >>, data |-> s]

\* Map generators: MapBins sets the key "bins" of the slice-point metadata
\* to an array of two entries, MapCount sets the key "count" to a scalar, the
\* number of bins it finds in the metadata.
MapBins == "bins"
MapCount == "count"
NoMaps == << "None" >>
MapLists == { NoMaps, << MapBins, MapCount >> }

VARIABLES
    \* configuration, fixed by __init__
    latLonDeg, useCamera, chipsToUse, radius, cacheSize, nslice, mapper,
    \* instance state
    slicePoints, rad, camera, epoch, opsimtree, sliceLookup, chipNames,
    sliceSimDataSet,
    \* the setupSlicer call in progress: where it is, its observation set,
    \* the loop index and the metadata of _presliceFootprint.  simData stays
    \* after the call, as the rows the index and the lookup refer to; a call
    \* that raises before it reads its observation set leaves it as it was
    pc, simData, ind, obs_metadata,
    \* what the last call returned or raised
    ret,
    \* history: how the last setupSlicer call ended, and whether one ever
    \* returned normally
    setups,
    \* the Database object: its tables (the columns with their types, and the
    \* rows the engine holds), and what the last query_columns call returned
    \* or raised
    tables, dbRet

config == << latLonDeg, useCamera, chipsToUse, radius, cacheSize, nslice, mapper >>
instance == << slicePoints, rad, camera, epoch, opsimtree, sliceLookup, chipNames,
               sliceSimDataSet >>
call == << pc, simData, ind, obs_metadata >>
db == << tables, dbRet >>
vars == << config, instance, call, ret, setups, db >>

(***************************************************************************)
(* Coordinate transforms and the k-d tree.                                   *)
(***************************************************************************)
\* _treexyz: the Cartesian position of (ra, dec), both in radians
_treexyz(ra, dec) ==
    << Mul(Cos(dec), Cos(ra)), Mul(Cos(dec), Sin(ra)), Sin(dec) >>

\* _setRad: the chord that spans the angle r (degrees) on the unit sphere
_setRad(r) ==
    LET p0 == << One, 0, 0 >>
        p1 == _treexyz(Radians(r), 0)
    IN  Sqrt((p1[1] - p0[1]) * (p1[1] - p0[1])
             + (p1[2] - p0[2]) * (p1[2] - p0[2])
             + (p1[3] - p0[3]) * (p1[3] - p0[3]))

\* the squared Euclidean distance of two Cartesian points
Dist2(p, q) ==
    (p[1] - q[1]) * (p[1] - q[1]) + (p[2] - q[2]) * (p[2] - q[2])
    + (p[3] - q[3]) * (p[3] - q[3])

\* cKDTree.query_ball_point: the indices of the tree's points within r of the
\* centre; the order scipy returns them in is unspecified, so a set
query_ball_point(tree, centre, r) ==
    {j \in Range(Len(tree)) : Dist2(At(tree, j), centre) <= r * r}

\* _buildTree: ValueError when a coordinate is beyond 2 pi or there is no
\* point, and otherwise the tree over the points' Cartesian positions
_buildTree(simDataRa, simDataDec) ==
    IF \/ \E k \in 1 .. Len(simDataRa) : Abs(simDataRa[k]) > TwoPi
       \/ \E k \in 1 .. Len(simDataDec) : Abs(simDataDec[k]) > TwoPi
    THEN [raised |-> TRUE, tree |-> << >>]
    ELSE IF Len(simDataRa) > 0
    THEN [raised |-> FALSE,
          tree |-> [k \in 1 .. Len(simDataRa) |-> _treexyz(simDataRa[k], simDataDec[k])]]
    ELSE [raised |-> TRUE, tree |-> << >>]

\* (mutant) the longitude column as it is, never converted
LonRaw(sd) == [k \in 1 .. Len(sd) |-> sd[k].lon]

\* the longitudes and the latitudes of simData in radians, as setupSlicer
\* and _presliceFootprint read them: converted when latLonDeg is set
LonRadians(sd) ==
    [k \in 1 .. Len(sd) |-> IF latLonDeg THEN Radians(sd[k].lon) ELSE sd[k].lon]

LatRadians(sd) ==
    [k \in 1 .. Len(sd) |-> IF latLonDeg THEN Radians(sd[k].lat) ELSE sd[k].lat]

\* the columns 'ra' and 'dec' of the slice points
SliceRa == slicePoints["ra"].data
SliceDec == slicePoints["dec"].data

(***************************************************************************)
(* The camera: _setupLSSTCamera and _chipNameFromRaDec.                      *)
(***************************************************************************)
\* ObservationMetaData(pointingRA, pointingDec, rotSkyPos, mjd)
ObservationMetaData(pointingRA, pointingDec, rotSkyPos, mjd) ==
    [pointingRA |-> pointingRA, pointingDec |-> pointingDec,
     rotSkyPos |-> rotSkyPos, mjd |-> mjd]

NoObservationMetaData == ObservationMetaData(0, 0, 0, 0)

\* the orientation of obs_metadata within one turn, in degrees
Orientation(om) == om.rotSkyPos % (360 * One)

\* _chipNameFromRaDec for one sky position (radians): the provider reads the
\* pointing and the orientation of obs_metadata in degrees.  It names the
\* detector of the camera model for a position at the pointing centre; a
\* position off the centre is on the model's other detector while the camera
\* is oriented within the first half turn, and on no detector past it
_chipNameFromRaDec(ra, dec, cam, om) ==
    LET centre == _treexyz(Radians(om.pointingRA), Radians(om.pointingDec))
    IN  IF Dist2(_treexyz(ra, dec), centre) <= 100 THEN cam.centre
        ELSE IF Orientation(om) < 180 * One THEN cam.off
        ELSE None

(***************************************************************************)
(* The slice-point metadata store and the map generators.                    *)
(***************************************************************************)
\* the store a spatial slicer's constructor leaves: 'sid', 'ra' and 'dec',
\* one entry per slice point
InitialSlicePoints(pts) ==
    [k \in {"sid", "ra", "dec"} |->
        IF k = "sid" THEN Array([i \in 1 .. Len(pts) |-> i - 1])
        ELSE IF k = "ra" THEN Array([i \in 1 .. Len(pts) |-> pts[i].ra])
        ELSE Array([i \in 1 .. Len(pts) |-> pts[i].dec])]

\* one map generator run on the store
RunMap(sp, m) ==
    IF m = MapBins
    THEN [k \in DOMAIN sp \cup {"bins"} |->
             IF k = "bins" THEN Array(<< 5, 6 >>) ELSE sp[k]]
    ELSE [k \in DOMAIN sp \cup {"count"} |->
             IF k = "count"
             THEN Scalar(IF "bins" \in DOMAIN sp THEN Len(sp["bins"].data) ELSE 0)
             ELSE sp[k]]

\* _runMaps: every generator of the list, in order
RECURSIVE _runMaps(_, _)
_runMaps(sp, maps) ==
    IF maps = << >> THEN sp
    ELSE _runMaps(RunMap(sp, Head(maps)), Tail(maps))

(***************************************************************************)
(* What a call returns or raises.                                            *)
(***************************************************************************)
NoIdxs == IF useCamera THEN << >> ELSE {}
NoSlicePoint == [k \in {} |-> 0]

\* op and status: the call and how it ended; islice, idxs and slicePoint: a
\* query's argument and result; empty, mapsGiven and warned: whether
\* setupSlicer was given no observation, was given maps, and warned
Outcome(op, status, islice, idxs, slicePoint, empty, mapsGiven, warned) ==
    [op |-> op, status |-> status, islice |-> islice, idxs |-> idxs,
     slicePoint |-> slicePoint, empty |-> empty, mapsGiven |-> mapsGiven,
     warned |-> warned]

SetupOutcome(status, sd, maps, warned) ==
    Outcome("setupSlicer", status, 0, NoIdxs, NoSlicePoint, Len(sd) = 0, maps # NoMaps,
            warned)

QueryOutcome(status, islice, idxs, slicePoint) ==
    Outcome("query", status, islice, idxs, slicePoint, FALSE, FALSE, FALSE)

(***************************************************************************)
(* Database: query_columns, _build_query and _convert_results.               *)
(***************************************************************************)
\* a column of a table, and a table: its columns and the rows of the engine
Column(name, type) == [name |-> name, type |-> type]
Table(columns, rows) == [columns |-> columns, rows |-> rows]

\* the databases a Database object is connected to: observations of two
\* nights with the fields they point at, and the same schema without a row
DbObs ==
    [t \in {"obs", "fields"} |->
        IF t = "obs"
        THEN Table(<< Column("night", "INTEGER"), Column("filter", "TEXT") >>,
                   << [night |-> 1, filter |-> "r"], [night |-> 1, filter |-> "r"],
                      [night |-> 2, filter |-> "g"] >>)
        ELSE Table(<< Column("fieldId", "INTEGER") >>,
                   << [fieldId |-> 7], [fieldId |-> 8] >>)]

DbEmpty ==
    [t \in {"obs", "fields"} |->
        IF t = "obs"
        THEN Table(<< Column("night", "INTEGER"), Column("filter", "TEXT") >>, << >>)
        ELSE Table(<< Column("fieldId", "INTEGER") >>, << >>)]

Databases == {DbObs, DbEmpty}

\* the arguments of query_columns: None for colnames is NoCols, None for
\* numLimit is NoLimit, and chunksize None is taken as 0, which the code
\* treats alike
NoCols == << "None" >>
NoLimit == -1
DefaultChunksize == 1000000
TableNames == {"obs", "fields", "nosuchtable"}
ColNames ==
    { NoCols, << >>, << "night" >>, << "night", "filter" >>, << "filter", "night" >>,
      << "fieldId" >>, << "nosuchcolumn" >> }
SqlConstraints == {None, "", "night = 1"}
GroupBys == {None, "night", "nosuchcolumn"}
NumLimits == {NoLimit, 1}
Chunksizes == {0, 1, DefaultChunksize}

\* self.columnNames[tablename]
columnNames(tablename) ==
    [k \in 1 .. Len(tables[tablename].columns) |-> tables[tablename].columns[k].name]

\* self.tables[tablename].c[col].type.__visit_name__
ColumnType(tablename, col) ==
    (CHOOSE c \in {tables[tablename].columns[k] :
                      k \in 1 .. Len(tables[tablename].columns)} : c.name = col).type

\* self.dbTypeMap, for the column types of the tables
dbTypeMap(type) ==
    IF type = "INTEGER" THEN << "int" >>
    ELSE IF type = "REAL" THEN << "float" >>
    ELSE << "str", 256 >>

SeqElems(q) == {q[k] : k \in 1 .. Len(q)}

\* the columns of the query _build_query puts together: the first name
\* starts the query, and each other name is added to it
RECURSIVE QueryColumns(_, _)
QueryColumns(colnames, n) ==
    IF n = 0 THEN << >>
    ELSE IF colnames[n] = colnames[1] THEN << colnames[n] >>
    ELSE Append(QueryColumns(colnames, n - 1), colnames[n])

DbOutcome(raised, value) == [raised |-> raised, value |-> value]
NoQuery == [columns |-> << >>, table |-> None, filter |-> None, groupBy |-> None,
            limit |-> NoLimit]

\* _build_query: the query object, or the error raised
_build_query(tablename, colnames, sqlconstraint, groupBy, numLimit) ==
    IF tablename \notin DOMAIN tables THEN DbOutcome("ValueError", NoQuery)
    ELSE IF /\ colnames # NoCols
            /\ \/ \E col \in SeqElems(colnames) : col \notin SeqElems(columnNames(tablename))
               \/ groupBy # None /\ groupBy \notin SeqElems(columnNames(tablename))
    THEN DbOutcome("ValueError", NoQuery)
    ELSE LET names == IF colnames = NoCols THEN columnNames(tablename) ELSE colnames
         IN  IF Len(names) = 0 THEN DbOutcome("UnboundLocalError", NoQuery)
             ELSE DbOutcome("none",
                            [columns |-> QueryColumns(names, Len(names)),
                             table |-> tablename,
                             filter |-> IF sqlconstraint # None /\ sqlconstraint # ""
                                        THEN sqlconstraint ELSE None,
                             groupBy |-> groupBy,
                             limit |-> numLimit])

\* the column a constraint text reads, and the value it asks for
ConstraintColumn(sqlconstraint) == "night"
ConstraintValue(sqlconstraint) == 1

\* session.execute(query): the rows of the table that pass the filter, one
\* row for each value of the group-by column, up to the limit, as tuples of
\* the query's columns; the engine raises OperationalError for a column the
\* table does not have
execute(query) ==
    LET t == tables[query.table]
        names == SeqElems(columnNames(query.table))
        kept == IF query.filter = None THEN t.rows
                ELSE SelectSeq(t.rows,
                               LAMBDA row : row[ConstraintColumn(query.filter)]
                                               = ConstraintValue(query.filter))
        first(k) == \A j \in 1 .. (k - 1) : kept[j][query.groupBy] # kept[k][query.groupBy]
        RECURSIVE Groups(_)
        Groups(k) == IF k = 0 THEN << >>
                     ELSE IF first(k) THEN Append(Groups(k - 1), kept[k])
                     ELSE Groups(k - 1)
        grouped == IF query.groupBy = None THEN kept ELSE Groups(Len(kept))
        limited == IF query.limit = NoLimit \/ query.limit >= Len(grouped) THEN grouped
                   ELSE SubSeq(grouped, 1, query.limit)
    IN  IF \/ query.filter # None /\ ConstraintColumn(query.filter) \notin names
           \/ query.groupBy # None /\ query.groupBy \notin names
        THEN DbOutcome("OperationalError", << >>)
        ELSE DbOutcome("none",
                       [k \in 1 .. Len(limited) |->
                           [c \in 1 .. Len(query.columns) |-> limited[k][query.columns[c]]]])

\* a value of a record array: the numpy type of its field and the value
Cast(v, dt) == [type |-> dt[2], value |-> v]

recarray(dtype, rows) == [dtype |-> dtype, rows |-> rows]
NoData == recarray(<< >>, << >>)

\* _convert_results: the rows as a record array of the dtype
_convert_results(results, dtype) ==
    IF Len(results) = 0 THEN recarray(dtype, << >>)
    ELSE recarray(dtype, [k \in 1 .. Len(results) |->
                             [c \in 1 .. Len(results[k]) |-> Cast(results[k][c], dtype[c])]])

\* fetchmany(chunksize) until the rows run out, each chunk converted
RECURSIVE FetchChunks(_, _, _)
FetchChunks(results, chunksize, dtype) ==
    IF Len(results) = 0 THEN << >>
    ELSE IF Len(results) <= chunksize THEN << _convert_results(results, dtype) >>
    ELSE << _convert_results(SubSeq(results, 1, chunksize), dtype) >>
         \o FetchChunks(SubSeq(results, chunksize + 1, Len(results)), chunksize, dtype)

\* np.hstack(chunks)
RECURSIVE hstack(_)
hstack(chunks) ==
    IF Len(chunks) = 1 THEN chunks[1]
    ELSE recarray(chunks[1].dtype, chunks[1].rows \o hstack(Tail(chunks)).rows)

\* the dtype loop of query_columns, over the colnames the caller gave
Dtype(tablename, colnames) ==
    [k \in 1 .. Len(colnames) |->
        << colnames[k] >> \o dbTypeMap(ColumnType(tablename, colnames[k]))]

\* what query_columns returns or raises
QueryColumnsOutcome(tablename, colnames, sqlconstraint, groupBy, numLimit, chunksize) ==
    LET built == _build_query(tablename, colnames, sqlconstraint, groupBy, numLimit)
    IN  IF built.raised # "none" THEN DbOutcome(built.raised, NoData)
        ELSE IF colnames = NoCols THEN DbOutcome("TypeError", NoData)
        ELSE LET dtype == Dtype(tablename, colnames)
                 exec_query == execute(built.value)
             IN  IF exec_query.raised # "none" THEN DbOutcome(exec_query.raised, NoData)
                 ELSE IF chunksize = 0
                 THEN DbOutcome("none", _convert_results(exec_query.value, dtype))
                 ELSE LET chunks == FetchChunks(exec_query.value, chunksize, dtype)
                      IN  IF Len(chunks) = 0
                          THEN DbOutcome("none", recarray(dtype, << >>))
                          ELSE DbOutcome("none", hstack(chunks))

DbCall(op, tablename, colnames, sqlconstraint, groupBy, numLimit, chunksize, outcome) ==
    [op |-> op, tablename |-> tablename, colnames |-> colnames,
     sqlconstraint |-> sqlconstraint, groupBy |-> groupBy, numLimit |-> numLimit,
     chunksize |-> chunksize, status |-> outcome.raised, data |-> outcome.value]

NoDbCall == DbCall("none", None, NoCols, None, None, NoLimit, 0, DbOutcome("none", NoData))

\* Database.__init__: the tables of the database it connects to
DatabaseInit(database) ==
    /\ tables = database
    /\ dbRet = NoDbCall

\* a call of query_columns
query_columns(tablename, colnames, sqlconstraint, groupBy, numLimit, chunksize) ==
    /\ dbRet' = DbCall("query_columns", tablename, colnames, sqlconstraint, groupBy,
                       numLimit, chunksize,
                       QueryColumnsOutcome(tablename, colnames, sqlconstraint, groupBy,
                                           numLimit, chunksize))
    /\ UNCHANGED << config, instance, call, ret, setups, tables >>

(***************************************************************************)
(* Init: an instance as a spatial slicer's constructor leaves it.            *)
(***************************************************************************)
Init ==
    /\ latLonDeg \in BOOLEAN
    /\ useCamera \in BOOLEAN
    /\ \E cs \in IF useCamera THEN CameraSetups ELSE {<< {"all"}, CameraModel("R1", "R2") >>} :
        /\ chipsToUse = cs[1]
        /\ mapper = cs[2]
    /\ radius = DefaultRadius
    /\ cacheSize \in {0, 10}
    /\ \E pts \in SlicePointSets :
        /\ nslice = Len(pts)
        /\ slicePoints = InitialSlicePoints(pts)
    /\ rad = -1
    /\ camera = NoCamera
    /\ epoch = 0
    /\ opsimtree = << >>
    /\ sliceLookup = << >>
    /\ chipNames = << >>
    /\ sliceSimDataSet = FALSE
    /\ pc = "idle"
    /\ simData = << >>
    /\ ind = 0
    /\ obs_metadata = NoObservationMetaData
    /\ ret = Outcome("none", "none", 0, NoIdxs, NoSlicePoint, FALSE, FALSE, FALSE)
    /\ setups = [last |-> "none", completed |-> FALSE]
    /\ DatabaseInit(DbObs)

(***************************************************************************)
(* setupSlicer.                                                               *)
(***************************************************************************)
\* (mutant) the lookup lists of the last setupSlicer are kept and extended
KeptSliceLookup(n) ==
    IF Len(sliceLookup) = n THEN sliceLookup ELSE [i \in 1 .. n |-> << >>]

\* the lists _presliceFootprint starts from: one empty list per slice point
NewSliceLookup(n) == [i \in 1 .. n |-> << >>]

\* (mutant) the chip-name lists of the last setupSlicer are kept
KeptChipNames(n) ==
    IF Len(chipNames) = n THEN chipNames ELSE [i \in 1 .. n |-> << >>]

NewChipNames(n) == [i \in 1 .. n |-> << >>]

\* (mutant) the query function is bound before the index is built
BoundEarly(raised) == TRUE

\* setattr(self, '_sliceSimData', ...) is the last statement of setupSlicer:
\* it is reached when nothing before it raised
SliceSimDataBound(raised) == ~raised

\* (mutant) the maps are run only when the cache is off
MapsRunUncached(sp, maps) ==
    IF maps # NoMaps /\ cacheSize = 0 THEN _runMaps(sp, maps) ELSE sp

\* the slice-point metadata after the first statement of setupSlicer: the
\* maps, when given, are run whether or not the warning was issued
MapsRun(sp, maps) == IF maps # NoMaps THEN _runMaps(sp, maps) ELSE sp

\* setupSlicer(simData, maps), up to the loop of _presliceFootprint in
\* footprint mode, and whole otherwise
setupSlicer(sd, maps) ==
    /\ pc = "idle"
    /\ LET sp1 == MapsRun(slicePoints, maps)
           warned == maps # NoMaps /\ cacheSize # 0 /\ Len(maps) > 0
       IN  /\ slicePoints' = sp1
           /\ rad' = _setRad(radius)
           /\ IF useCamera
              THEN LET built == _buildTree(sp1["ra"].data, sp1["dec"].data)
                   IN  /\ camera' = mapper
                       /\ epoch' = 2000 * One
                       /\ sliceLookup' = NewSliceLookup(nslice)
                       /\ chipNames' = NewChipNames(nslice)
                       /\ IF built.raised
                          THEN /\ ret' = SetupOutcome("ValueError", sd, maps, warned)
                               /\ setups' = [setups EXCEPT !.last = "ValueError"]
                               /\ sliceSimDataSet' =
                                    (sliceSimDataSet \/ SliceSimDataBound(TRUE))
                               /\ UNCHANGED << opsimtree, call >>
                          ELSE /\ opsimtree' = built.tree
                               /\ pc' = "preslice"
                               /\ simData' = sd
                               /\ ind' = 0
                               /\ ret' = SetupOutcome("running", sd, maps, warned)
                               /\ setups' = [setups EXCEPT !.last = "running"]
                               /\ UNCHANGED << obs_metadata, sliceSimDataSet >>
              ELSE LET built == _buildTree(LonRadians(sd), LatRadians(sd))
                   IN  /\ sliceSimDataSet' =
                            (sliceSimDataSet \/ SliceSimDataBound(built.raised))
                       /\ IF built.raised
                          THEN /\ ret' = SetupOutcome("ValueError", sd, maps, warned)
                               /\ setups' = [setups EXCEPT !.last = "ValueError"]
                               /\ UNCHANGED << opsimtree, simData >>
                          ELSE /\ opsimtree' = built.tree
                               /\ simData' = sd
                               /\ ret' = SetupOutcome("ok", sd, maps, warned)
                               /\ setups' = [last |-> "ok", completed |-> TRUE]
                       /\ UNCHANGED << camera, epoch, sliceLookup, chipNames,
                                       pc, ind, obs_metadata >>
    /\ UNCHANGED << config, db >>

(***************************************************************************)
(* _presliceFootprint: one pointing of its loop.                             *)
(***************************************************************************)
\* the candidates whose detector is in the allow-list, when one is set
AllowedChips(hpIndices, names) ==
    IF chipsToUse # {"all"}
    THEN {i \in hpIndices : names[i] \in chipsToUse}
    ELSE hpIndices

\* (mutant) candidates off every detector are kept
OnChipOrOff(hpIndices, names) == hpIndices

\* the candidates that fell on a detector
OnChip(hpIndices, names) == {i \in hpIndices : names[i] # None}

\* (mutant) list.insert(0, x)
PrependMatch(list, x) == << x >> \o list

\* list.append
AppendMatch(list, x) == Append(list, x)

\* the pointing simData[ind]: its candidates, the metadata handed to the
\* camera, the detector of each candidate, and the candidates kept
Pointing(sd, k) ==
    LET ra == At(LonRadians(sd), k)
        dec == At(LatRadians(sd), k)
        hpIndices == query_ball_point(opsimtree, _treexyz(ra, dec), rad)
        om == ObservationMetaData(Degrees(ra), Degrees(dec),
                                  Degrees(At(sd, k).rotSkyPos), At(sd, k).mjd)
        names == [i \in hpIndices |->
                     _chipNameFromRaDec(At(SliceRa, i), At(SliceDec, i), camera, om)]
    IN  [hpIndices |-> hpIndices, obs_metadata |-> om, chipNames |-> names,
         hpOnChip |-> OnChip(AllowedChips(hpIndices, names), names)]

presliceFootprintStep ==
    /\ pc = "preslice"
    /\ ind < Len(simData)
    /\ LET p == Pointing(simData, ind)
       IN  IF p.hpIndices # {}
           THEN /\ obs_metadata' = p.obs_metadata
                /\ sliceLookup' =
                     [i \in 1 .. nslice |->
                        IF (i - 1) \in p.hpOnChip
                        THEN AppendMatch(sliceLookup[i], ind) ELSE sliceLookup[i]]
                /\ chipNames' =
                     [i \in 1 .. nslice |->
                        IF (i - 1) \in p.hpOnChip
                        THEN AppendMatch(chipNames[i], p.chipNames[i - 1])
                        ELSE chipNames[i]]
           ELSE UNCHANGED << obs_metadata, sliceLookup, chipNames >>
    /\ ind' = ind + 1
    /\ UNCHANGED << config, slicePoints, rad, camera, epoch, opsimtree,
                    sliceSimDataSet, pc, simData, ret, setups, db >>

\* the end of setupSlicer in footprint mode: the loop is over, and the
\* query function is bound to the instance
setupSlicerReturn ==
    /\ pc = "preslice"
    /\ ind = Len(simData)
    /\ sliceSimDataSet' = (sliceSimDataSet \/ SliceSimDataBound(FALSE))
    /\ pc' = "idle"
    /\ ret' = [ret EXCEPT !.status = "ok"]
    /\ setups' = [last |-> "ok", completed |-> TRUE]
    /\ UNCHANGED << config, slicePoints, rad, camera, epoch, opsimtree,
                    sliceLookup, chipNames, simData, ind, obs_metadata, db >>

(***************************************************************************)
(* The query function.                                                        *)
(***************************************************************************)
\* the first dimension of a stored value, 0 for a scalar
KeyShape(v) == IF Len(v.shape) = 0 THEN 0 ELSE v.shape[1]

\* (mutant) every value is handed out whole
SlicePointValueWhole(v, islice) == v

\* the value query hands out for one key of the store
SlicePointValue(v, islice) ==
    IF KeyShape(v) = nslice THEN Scalar(PyGet(v.data, islice)) ELSE v

\* the slicePoint dictionary of a query
SlicePointInfo(islice) ==
    [k \in DOMAIN slicePoints \cup (IF useCamera THEN {"chipNames"} ELSE {}) |->
        IF k \in DOMAIN slicePoints THEN SlicePointValue(slicePoints[k], islice)
        ELSE PyGet(chipNames, islice)]

\* BaseSlicer._sliceSimData, in place until setupSlicer binds the closure
BaseSliceSimData(islice) == QueryOutcome("NotReadyError", islice, NoIdxs, NoSlicePoint)

\* is islice an index Python accepts for the per-slice lists
SliceIndexOK(islice) ==
    IF useCamera THEN PyInRange(Len(sliceLookup), islice)
    ELSE PyInRange(Len(SliceRa), islice)

\* the closure _sliceSimData that setupSlicer binds
_sliceSimData(islice) ==
    IF ~SliceIndexOK(islice)
    THEN QueryOutcome("IndexError", islice, NoIdxs, NoSlicePoint)
    ELSE LET indices ==
                 IF useCamera THEN PyGet(sliceLookup, islice)
                 ELSE query_ball_point(opsimtree,
                                       _treexyz(PyGet(SliceRa, islice),
                                                PyGet(SliceDec, islice)), rad)
         IN  QueryOutcome("ok", islice, indices, SlicePointInfo(islice))

\* (mutant) a query that drops the index and the lookup it has read
queryConsuming(islice) ==
    /\ pc = "idle"
    /\ ret' = IF sliceSimDataSet THEN _sliceSimData(islice) ELSE BaseSliceSimData(islice)
    /\ opsimtree' = IF useCamera THEN opsimtree ELSE << >>
    /\ sliceLookup' = [i \in 1 .. Len(sliceLookup) |-> << >>]
    /\ UNCHANGED << config, slicePoints, rad, camera, epoch, chipNames,
                    sliceSimDataSet, call, setups, db >>

\* a call of the instance's query function
query(islice) ==
    /\ pc = "idle"
    /\ ret' = IF sliceSimDataSet THEN _sliceSimData(islice) ELSE BaseSliceSimData(islice)
    /\ UNCHANGED << config, instance, call, setups, db >>

Next ==
    \/ \E sd \in SimDataSets, maps \in MapLists : setupSlicer(sd, maps)
    \/ presliceFootprintStep
    \/ setupSlicerReturn
    \/ \E islice \in (-(nslice + 1)) .. nslice : query(islice)

Spec == Init /\ [][Next]_vars

\* The Database object on its own: any database, beside a slicer that is
\* constructed and left alone.
InitDb ==
    /\ latLonDeg = TRUE
    /\ useCamera = FALSE
    /\ chipsToUse = {"all"}
    /\ mapper = CameraModel("R1", "R2")
    /\ radius = DefaultRadius
    /\ cacheSize = 0
    /\ nslice = 0
    /\ slicePoints = InitialSlicePoints(<< >>)
    /\ rad = -1
    /\ camera = NoCamera
    /\ epoch = 0
    /\ opsimtree = << >>
    /\ sliceLookup = << >>
    /\ chipNames = << >>
    /\ sliceSimDataSet = FALSE
    /\ pc = "idle"
    /\ simData = << >>
    /\ ind = 0
    /\ obs_metadata = NoObservationMetaData
    /\ ret = Outcome("none", "none", 0, NoIdxs, NoSlicePoint, FALSE, FALSE, FALSE)
    /\ setups = [last |-> "none", completed |-> FALSE]
    /\ \E database \in Databases : DatabaseInit(database)

NextDb ==
    \E tablename \in TableNames, colnames \in ColNames,
       sqlconstraint \in SqlConstraints, groupBy \in GroupBys,
       numLimit \in NumLimits, chunksize \in Chunksizes :
        query_columns(tablename, colnames, sqlconstraint, groupBy, numLimit, chunksize)

SpecDb == InitDb /\ [][NextDb]_vars

(***************************************************************************)
(* The claims.                                                                *)
(***************************************************************************)
ValidSlices == Range(nslice)

Returned == ret.op = "query" /\ ret.status = "ok"

\* the observations of sd within the chord radius of slice point i, computed
\* from the observation set, the slice point and the configured radius
WithinRadius(sd, i) ==
    LET centre == _treexyz(At(SliceRa, i), At(SliceDec, i))
        pos(j) == IF latLonDeg
                  THEN _treexyz(Radians(At(sd, j).lon), Radians(At(sd, j).lat))
                  ELSE _treexyz(At(sd, j).lon, At(sd, j).lat)
        chord == _setRad(radius)
    IN  {j \in Range(Len(sd)) : Dist2(pos(j), centre) <= chord * chord}

\* C1: in non-footprint mode, once setupSlicer has succeeded, query(i) for a
\* slice index i in [0, nslice) returns exactly the indices of the
\* observations whose Cartesian position is within the chord radius of slice
\* point i: none outside, none missing
C1_QueryExact ==
    (~useCamera /\ ret.op = "query" /\ setups.completed /\ ret.islice \in ValidSlices)
        => /\ ret.status = "ok"
           /\ ret.idxs = WithinRadius(simData, ret.islice)

\* a query that returned some observations of the set and left others out
C1_Witness ==
    /\ ~useCamera /\ Returned /\ ret.islice \in ValidSlices
    /\ ret.idxs # {}
    /\ Cardinality(ret.idxs) < Len(simData)

\* C2: a query on an instance on which no setupSlicer has completed fails
\* with NotReadyError, and a query returns a result only after a setupSlicer
\* that completed
C2_NotReadyBeforeSetup ==
    ret.op = "query"
        => /\ ~setups.completed => ret.status = "NotReadyError"
           /\ ret.status = "ok" => setups.completed

\* a query refused on an instance whose only setupSlicer call failed
C2_Witness ==
    /\ ret.op = "query" /\ ret.status = "NotReadyError"
    /\ setups.last = "ValueError"

\* C3: setupSlicer on an empty observation set fails (ValueError), with and
\* without the camera footprint, whatever the slice points
C3_EmptyRaises ==
    (ret.op = "setupSlicer" /\ ret.empty /\ ret.status # "running")
        => ret.status = "ValueError"

\* C4: after setupSlicer, query(sliceIndex) fails with IndexError for every
\* sliceIndex outside [0, nslice), -1 and nslice among them
C4_OutOfRangeRaises ==
    (ret.op = "query" /\ setups.completed /\ ret.islice \notin ValidSlices)
        => ret.status = "IndexError"

\* C5: in footprint mode no chip name of the lookup is None, and each is in
\* the allow-list when one is configured
C5_ChipNamesOnDetector ==
    useCamera =>
        \A i \in 1 .. Len(chipNames) : \A k \in 1 .. Len(chipNames[i]) :
            /\ chipNames[i][k] # None
            /\ chipsToUse # {"all"} => chipNames[i][k] \in chipsToUse

\* a finished lookup, under an allow-list, with a match at one slice point
\* and none at another
C5_Witness ==
    /\ useCamera /\ pc = "idle" /\ setups.last = "ok"
    /\ chipsToUse # {"all"}
    /\ \E i, j \in 1 .. nslice :
        /\ Len(chipNames[i]) > 0
        /\ sliceLookup[j] = << >>

\* C6: in footprint mode the index list and the chip-name list of every slice
\* point have the same length, while the lookup is built and after, and
\* query(i) returns the two lists of slice point i
C6_ParallelLists ==
    useCamera =>
        /\ Len(sliceLookup) = Len(chipNames)
        /\ \A i \in 1 .. Len(sliceLookup) : Len(sliceLookup[i]) = Len(chipNames[i])
        /\ (Returned /\ ret.islice \in ValidSlices)
            => /\ ret.idxs = At(sliceLookup, ret.islice)
               /\ ret.slicePoint["chipNames"] = At(chipNames, ret.islice)

\* a query that returned two matches with their two chip names
C6_Witness ==
    /\ useCamera /\ Returned /\ ret.islice \in ValidSlices
    /\ Len(ret.idxs) = 2
    /\ Len(ret.slicePoint["chipNames"]) = 2

\* C7: in footprint mode the pointings are taken in input order and each
\* match goes to the end of its list: every list of observation indices is
\* in increasing order, and holds only pointings the loop has passed
C7_LookupSorted ==
    useCamera =>
        \A i \in 1 .. Len(sliceLookup) :
            /\ \A j, k \in 1 .. Len(sliceLookup[i]) :
                j < k => sliceLookup[i][j] < sliceLookup[i][k]
            /\ pc = "preslice" =>
                \A j \in 1 .. Len(sliceLookup[i]) : sliceLookup[i][j] < ind

\* a finished lookup with two observations at one slice point
C7_Witness ==
    /\ useCamera /\ pc = "idle" /\ setups.last = "ok"
    /\ \E i \in 1 .. nslice : Len(sliceLookup[i]) >= 2

\* C8: the slicePoint mapping of query(i) holds, for every key of the
\* metadata store, the i-th element of the stored value when its leading
\* dimension is nslice, and the stored value itself otherwise
C8_SlicePointMetadata ==
    (Returned /\ ret.islice \in ValidSlices)
        => \A k \in DOMAIN slicePoints :
            /\ k \in DOMAIN ret.slicePoint
            /\ LET v == slicePoints[k]
               IN  IF Len(v.shape) > 0 /\ v.shape[1] = nslice
                   THEN ret.slicePoint[k] = Scalar(At(v.data, ret.islice))
                   ELSE ret.slicePoint[k] = v

\* a query that handed out a per-slice-point value and, whole, an array of
\* another length and a scalar
C8_Witness ==
    /\ Returned /\ ret.islice \in ValidSlices
    /\ "bins" \in DOMAIN slicePoints
    /\ slicePoints["bins"].shape[1] # nslice
    /\ ret.slicePoint["bins"] = slicePoints["bins"]
    /\ ret.slicePoint["count"] = Scalar(2)
    /\ ret.slicePoint["ra"] = Scalar(At(SliceRa, ret.islice))

\* C9: a query, whether it returns or raises, leaves the index, the lookup,
\* the chip names, the chord radius and the metadata store as they were, and
\* a query with the index of the query before it returns what that one did
C9_QueryIsPure ==
    [][ret'.op = "query"
        => /\ UNCHANGED << opsimtree, sliceLookup, chipNames, rad, slicePoints >>
           /\ (ret.op = "query" /\ ret.islice = ret'.islice)
                => (ret'.status = ret.status /\ ret'.idxs = ret.idxs)]_vars

\* a query that returned observations
C9_Witness ==
    /\ Returned
    /\ ret.idxs # NoIdxs

\* C10, as stated: after a setupSlicer that failed, a query (here one with a
\* slice index in [0, nslice)) returns nothing, whether or not an earlier
\* setupSlicer had succeeded
C10_FailedSetupNotQueryable ==
    (ret.op = "query" /\ setups.last = "ValueError" /\ ret.islice \in ValidSlices)
        => ret.status # "ok"

\* C10, amended: after a setupSlicer that failed on an instance on which no
\* setupSlicer has succeeded, a query returns nothing: it fails with
\* NotReadyError, with and without maps
C10_FirstFailedSetupNotQueryable ==
    (ret.op = "query" /\ setups.last = "ValueError" /\ ~setups.completed)
        => ret.status = "NotReadyError"

\* a query refused after a failed first setupSlicer that was given maps
C10_Witness ==
    /\ ret.op = "query" /\ ret.status = "NotReadyError"
    /\ setups.last = "ValueError" /\ ~setups.completed
    /\ "bins" \in DOMAIN slicePoints

\* the index of a fresh instance after one setupSlicer on sd: the positions
\* of the slice points in footprint mode, and of the observations otherwise
FreshTree(sd) ==
    IF useCamera
    THEN [k \in 1 .. nslice |-> _treexyz(SliceRa[k], SliceDec[k])]
    ELSE [k \in 1 .. Len(sd) |->
             IF latLonDeg THEN _treexyz(Radians(sd[k].lon), Radians(sd[k].lat))
             ELSE _treexyz(sd[k].lon, sd[k].lat)]

\* the lookup and the chip names of a fresh instance after the first n
\* pointings of one setupSlicer on sd, from empty lists
RECURSIVE FreshLists(_, _)
FreshLists(sd, n) ==
    IF n = 0
    THEN [lookup |-> [i \in 1 .. nslice |-> << >>],
          names |-> [i \in 1 .. nslice |-> << >>]]
    ELSE LET before == FreshLists(sd, n - 1)
             p == Pointing(sd, n - 1)
         IN  [lookup |-> [i \in 1 .. nslice |->
                            IF (i - 1) \in p.hpOnChip
                            THEN Append(before.lookup[i], n - 1)
                            ELSE before.lookup[i]],
              names |-> [i \in 1 .. nslice |->
                            IF (i - 1) \in p.hpOnChip
                            THEN Append(before.names[i], p.chipNames[i - 1])
                            ELSE before.names[i]]]

\* C11: after any sequence of setupSlicer calls that succeeded, the index,
\* sliceLookup and chipNames are those of a fresh instance of the same
\* configuration on which only the last call was made: nothing of an earlier
\* observation set is carried over
C11_RebuiltFromScratch ==
    (pc = "idle" /\ setups.last = "ok")
        => /\ opsimtree = FreshTree(simData)
           /\ useCamera =>
                /\ sliceLookup = FreshLists(simData, Len(simData)).lookup
                /\ chipNames = FreshLists(simData, Len(simData)).names

\* a footprint setupSlicer without maps that returned on an instance an
\* earlier setupSlicer had run maps on, with one observation in the lookup
C11_Witness ==
    /\ useCamera /\ pc = "idle"
    /\ ret.op = "setupSlicer" /\ ret.status = "ok" /\ ~ret.mapsGiven
    /\ "bins" \in DOMAIN slicePoints
    /\ Len(simData) = 1
    /\ \E i \in 1 .. nslice : sliceLookup[i] = << 0 >>

\* the field names of a record array
FieldNames(data) == [k \in 1 .. Len(data.dtype) |-> data.dtype[k][1]]

\* C12: query_columns with colnames None on a table of the database selects
\* every column of the table: it returns a record array with one field for
\* each column of the table, and does not fail
C12_NoneSelectsAllColumns ==
    (dbRet.op = "query_columns" /\ dbRet.colnames = NoCols
        /\ dbRet.tablename \in DOMAIN tables)
        => /\ dbRet.status = "none"
           /\ FieldNames(dbRet.data) = columnNames(dbRet.tablename)

\* the pointing of an observation in degrees, with its orientation and date
PointingInDegrees(rec) ==
    ObservationMetaData(IF latLonDeg THEN rec.lon ELSE Degrees(rec.lon),
                        IF latLonDeg THEN rec.lat ELSE Degrees(rec.lat),
                        IF latLonDeg THEN rec.rotSkyPos ELSE Degrees(rec.rotSkyPos),
                        rec.mjd)

\* the detector the configured camera model gives slice point i for
\* pointing j of sd
Detector(sd, i, j) ==
    _chipNameFromRaDec(At(SliceRa, i), At(SliceDec, i), mapper,
                       PointingInDegrees(At(sd, j)))

\* is observation j in the lookup list of slice point i
InLookup(i, j) == \E k \in 1 .. Len(At(sliceLookup, i)) : At(sliceLookup, i)[k] = j

\* C13: in footprint mode observation j is in sliceLookup[i] if and only if
\* the loop has passed pointing j, slice point i is within the chord radius
\* of pointing j, the camera model gives slice point i a detector for
\* pointing j, and that detector is in the allow-list when one is set; a
\* pointing without candidates adds nothing, and no observation is twice in
\* one list
C13_LookupCharacterised ==
    (useCamera /\ setups.last \in {"running", "ok"})
        => \A i \in Range(nslice) :
            /\ \A j \in Range(Len(simData)) :
                InLookup(i, j)
                    <=> /\ j < ind
                        /\ j \in WithinRadius(simData, i)
                        /\ Detector(simData, i, j) # None
                        /\ chipsToUse # {"all"} => Detector(simData, i, j) \in chipsToUse
            /\ \A k, l \in 1 .. Len(At(sliceLookup, i)) :
                At(sliceLookup, i)[k] = At(sliceLookup, i)[l] => k = l

\* two angles in degrees that agree to a hundredth of a degree
SameAngle(a, b) == Abs(a - b) <= One \div 100

\* C14: in footprint mode the pointing longitude, the pointing latitude and
\* the orientation handed to the detector-geometry provider for a pointing
\* are that observation's values in degrees, whether the input columns are
\* in degrees or in radians
C14_AnglesInDegrees ==
    (useCamera /\ obs_metadata # NoObservationMetaData)
        => \E rec \in Records :
            /\ rec.mjd = obs_metadata.mjd
            /\ SameAngle(obs_metadata.pointingRA, PointingInDegrees(rec).pointingRA)
            /\ SameAngle(obs_metadata.pointingDec, PointingInDegrees(rec).pointingDec)
            /\ SameAngle(obs_metadata.rotSkyPos, PointingInDegrees(rec).rotSkyPos)

\* C15: a setupSlicer that is given map generators runs every one of them,
\* in list order, before it computes the chord radius and builds the index or
\* the lookup: whether it then returns or raises, the metadata store holds
\* what the generators left (the bins, and the count of the bins the second
\* generator found) beside its other keys unchanged, and the chord radius is
\* set.  With the cache on it warns and nothing else differs: it returns
\* and binds the query function, or raises, as it does with the cache off.
C15_MapsRunFirst ==
    [][(pc = "idle" /\ ret'.op = "setupSlicer" /\ ret'.mapsGiven)
        => /\ "bins" \in DOMAIN slicePoints' /\ "count" \in DOMAIN slicePoints'
           /\ slicePoints'["bins"] = Array(<< 5, 6 >>)
           /\ slicePoints'["count"] = Scalar(2)
           /\ \A k \in DOMAIN slicePoints \ {"bins", "count"} :
                 k \in DOMAIN slicePoints' /\ slicePoints'[k] = slicePoints[k]
           /\ rad' = _setRad(radius)
           /\ ret'.warned <=> cacheSize # 0
           /\ IF useCamera
              THEN /\ ret'.status = (IF nslice = 0 THEN "ValueError" ELSE "running")
                   /\ nslice # 0 => (pc' = "preslice" /\ opsimtree' = FreshTree(simData'))
              ELSE /\ ret'.status \in {"ok", "ValueError"}
                   /\ ret'.empty => ret'.status = "ValueError"
                   /\ ret'.status = "ok"
                        => (sliceSimDataSet' /\ opsimtree' = FreshTree(simData'))
                   /\ ret'.status = "ValueError" => UNCHANGED opsimtree]_vars

\* a setupSlicer that ran the maps, warned of the cache, and returned with the
\* index built and the query function bound
C15_Witness ==
    /\ ret.op = "setupSlicer" /\ ret.mapsGiven /\ ret.warned
    /\ ret.status = "ok" /\ pc = "idle"
    /\ slicePoints["count"] = Scalar(2)
    /\ sliceSimDataSet
    /\ opsimtree # << >>

====
